---- MODULE Spec2Model ----
(***************************************************************************)
(* Model of buildscripts/resmokelib/utils/external_suite.py: the suite     *)
(* document is a tree of mappings mutated in place by five steps and by    *)
(* make_external, which runs them in order.                                *)
(*                                                                         *)
(* A mapping is a function whose DOMAIN is the set of keys present.        *)
(* A Python str is a sequence of tokens (concatenation is \o).             *)
(* A hook reference is a tagged value:                                     *)
(*   [kind |-> "str",  name |-> n]     a plain string                      *)
(*   [kind |-> "dict", fields |-> m]   a mapping (m may lack "class")      *)
(*   [kind |-> "other"]                anything else (a number, a bool)    *)
(***************************************************************************)
EXTENDS Integers, Sequences, FiniteSets, TLC

VARIABLES suite, orig, prev, calls, err, ret, log

vars == <<suite, orig, prev, calls, err, ret, log>>

\* ---------------------------------------------------------------- bounds
MaxHooks == 2
MaxCalls == 2

\* ------------------------------------------------------- dict primitives
EmptyMap == [k \in {} |-> TRUE]

Has(m, k) == k \in DOMAIN m

Get(m, k, d) == IF k \in DOMAIN m THEN m[k] ELSE d

Pop(m, k) == [x \in (DOMAIN m) \ {k} |-> m[x]]

Put(m, k, v) == [x \in (DOMAIN m) \cup {k} |-> IF x = k THEN v ELSE m[x]]

SetDefault(m, k, d) == IF k \in DOMAIN m THEN m ELSE Put(m, k, d)

\* -------------------------------------------------------------- constants
\* variant: ContinuousStepdown missing from the list
INCOMPATIBLE_HOOKS_Short == <<"CleanEveryN", "CheckOrphansDeleted">>

INCOMPATIBLE_HOOKS == <<"CleanEveryN", "ContinuousStepdown", "CheckOrphansDeleted">>

AntithesisLoggingStr == [kind |-> "str", name |-> "AntithesisLogging"]

AntithesisLoggingDict == [kind |-> "dict", fields |-> [class |-> "AntithesisLogging"]]

JsTestLogNoOp == <<"jsTestLog", "=", "Function.prototype", ";">>

AntithesisIncompatibleTag == "antithesis_incompatible"

\* x in INCOMPATIBLE_HOOKS, for a Python value x: only a str can equal a str
InIncompatible(x) ==
  /\ x.kind = "str"
  /\ \E i \in 1..Len(INCOMPATIBLE_HOOKS) : INCOMPATIBLE_HOOKS[i] = x.name

\* ------------------------------------------------------------ delete_archival
\* variant: only the top-level key is popped
delete_archival_TopOnly(s) == Pop(s, "archive")

delete_archival(s) ==
  LET s1 == Pop(s, "archive")
  IN  IF Has(s1, "executor")
        THEN Put(s1, "executor", Pop(s1["executor"], "archive"))
        ELSE s1

\* ------------------------------------------------------ make_hooks_compatible
\* hook["class"] : the exception it raises, or "none"
SubscriptClassErr(h) ==
  IF h.kind = "dict"
    THEN (IF Has(h.fields, "class") THEN "none" ELSE "KeyError")
    ELSE "TypeError"

\* the first exception raised while the dict comprehension walks the list
RECURSIVE FirstClassErr(_)
FirstClassErr(hs) ==
  IF hs = <<>> THEN "none"
  ELSE IF SubscriptClassErr(Head(hs)) # "none" THEN SubscriptClassErr(Head(hs))
  ELSE FirstClassErr(Tail(hs))

KeepStr(h) == ~InIncompatible(h)

KeepDict(h) == ~InIncompatible([kind |-> "str", name |-> h.fields["class"]])

\* variant: the canonical hook is not prepended when the list already starts with it
make_hooks_compatible_Dedup(s) ==
  LET hooks == Get(Get(s, "executor", EmptyMap), "hooks", <<>>)
      pre(c) == IF hooks[1] = c THEN <<>> ELSE <<c>>
  IN  IF Len(hooks) = 0 THEN [suite |-> s, err |-> "none"]
      ELSE IF hooks[1].kind = "str" THEN
        [suite |-> Put(s, "executor",
                       Put(s["executor"], "hooks",
                           pre(AntithesisLoggingStr) \o SelectSeq(hooks, KeepStr))),
         err |-> "none"]
      ELSE IF hooks[1].kind = "dict" THEN
        IF FirstClassErr(hooks) # "none"
          THEN [suite |-> s, err |-> FirstClassErr(hooks)]
          ELSE [suite |-> Put(s, "executor",
                              Put(s["executor"], "hooks",
                                  pre(AntithesisLoggingDict) \o SelectSeq(hooks, KeepDict))),
                err |-> "none"]
      ELSE [suite |-> s, err |-> "RuntimeError"]

\* result: the document and the exception raised ("none" when it returns)
make_hooks_compatible(s) ==
  LET hooks == Get(Get(s, "executor", EmptyMap), "hooks", <<>>)
  IN  IF Len(hooks) = 0 THEN [suite |-> s, err |-> "none"]
      ELSE IF hooks[1].kind = "str" THEN
        [suite |-> Put(s, "executor",
                       Put(s["executor"], "hooks",
                           <<AntithesisLoggingStr>> \o SelectSeq(hooks, KeepStr))),
         err |-> "none"]
      ELSE IF hooks[1].kind = "dict" THEN
        IF FirstClassErr(hooks) # "none"
          THEN [suite |-> s, err |-> FirstClassErr(hooks)]
          ELSE [suite |-> Put(s, "executor",
                              Put(s["executor"], "hooks",
                                  <<AntithesisLoggingDict>> \o SelectSeq(hooks, KeepDict))),
                err |-> "none"]
      ELSE [suite |-> s, err |-> "RuntimeError"]

\* ------------------------------------------------------------ update_test_data
\* variant: TestData is replaced instead of updated
update_test_data_Replace(s) ==
  LET e  == Get(s, "executor", EmptyMap)
      c  == Get(e, "config", EmptyMap)
      so == Get(c, "shell_options", EmptyMap)
      gv == Get(so, "global_vars", EmptyMap)
  IN  Put(s, "executor",
        Put(e, "config",
          Put(c, "shell_options",
            Put(so, "global_vars",
              Put(gv, "TestData", [useActionPermittedFile |-> FALSE])))))

update_test_data(s) ==
  LET e  == Get(s, "executor", EmptyMap)
      c  == Get(e, "config", EmptyMap)
      so == Get(c, "shell_options", EmptyMap)
      gv == Get(so, "global_vars", EmptyMap)
      td == Get(gv, "TestData", EmptyMap)
  IN  Put(s, "executor",
        Put(e, "config",
          Put(c, "shell_options",
            Put(so, "global_vars",
              Put(gv, "TestData",
                Put(td, "useActionPermittedFile", FALSE))))))

\* ---------------------------------------------------------------- update_shell
\* variant: eval is assigned instead of appended to
update_shell_Assign(s) ==
  LET e  == Get(s, "executor", EmptyMap)
      c  == Get(e, "config", EmptyMap)
      so == Get(c, "shell_options", EmptyMap)
  IN  Put(s, "executor",
        Put(e, "config",
          Put(c, "shell_options",
            Put(so, "eval", JsTestLogNoOp))))

update_shell(s) ==
  LET e  == Get(s, "executor", EmptyMap)
      c  == Get(e, "config", EmptyMap)
      so == SetDefault(Get(c, "shell_options", EmptyMap), "eval", <<>>)
  IN  Put(s, "executor",
        Put(e, "config",
          Put(c, "shell_options",
            Put(so, "eval", so["eval"] \o JsTestLogNoOp))))

\* --------------------------------------------------------- update_exclude_tags
\* variant: the tag list is always reset to the single tag
update_exclude_tags_Reset(s) ==
  LET s1 == SetDefault(s, "selector", EmptyMap)
  IN  Put(s1, "selector",
          Put(s1["selector"], "exclude_with_any_tags", <<AntithesisIncompatibleTag>>))

\* variant: an empty tag list is handled by assigning a new selector mapping
update_exclude_tags_NewSelector(s) ==
  LET s1  == SetDefault(s, "selector", EmptyMap)
      sel == s1["selector"]
  IN  IF Len(Get(sel, "exclude_with_any_tags", <<>>)) = 0
        THEN Put(s1, "selector", [exclude_with_any_tags |-> <<AntithesisIncompatibleTag>>])
        ELSE Put(s1, "selector",
                 Put(sel, "exclude_with_any_tags",
                     Append(sel["exclude_with_any_tags"], AntithesisIncompatibleTag)))

update_exclude_tags(s) ==
  LET s1  == SetDefault(s, "selector", EmptyMap)
      sel == s1["selector"]
  IN  IF Len(Get(sel, "exclude_with_any_tags", <<>>)) = 0
        THEN Put(s1, "selector",
                 Put(sel, "exclude_with_any_tags", <<AntithesisIncompatibleTag>>))
        ELSE Put(s1, "selector",
                 Put(sel, "exclude_with_any_tags",
                     Append(sel["exclude_with_any_tags"], AntithesisIncompatibleTag)))

\* ---------------------------------------------------------------- make_external
\* the warnings each function hands to ROOT_EXECUTOR_LOGGER
WarnDeleteArchival == <<"archive_removed">>

WarnMakeHooksCompatible == <<"hooks_disabled", "antithesis_logging_added">>

WarnUpdateTestData == <<"useActionPermittedFile_false">>

WarnUpdateShell == <<"jsTestLog_noop">>

WarnUpdateExcludeTags == <<"antithesis_incompatible_excluded">>

WarnMakeExternal == <<"converting_to_external">>

\* variant: the hooks are normalized before archival is removed
make_external_HooksFirst(s) ==
  LET r1 == make_hooks_compatible(s)
      s5 == update_exclude_tags(update_shell(update_test_data(delete_archival(r1.suite))))
  IN  IF r1.err # "none"
        THEN [suite |-> r1.suite, err |-> r1.err, ret |-> [kind |-> "None"],
              log |-> WarnMakeExternal \o WarnMakeHooksCompatible]
        ELSE [suite |-> s5, err |-> "none", ret |-> [kind |-> "suite", doc |-> s5],
              log |-> WarnMakeExternal \o WarnMakeHooksCompatible \o WarnDeleteArchival
                      \o WarnUpdateTestData \o WarnUpdateShell \o WarnUpdateExcludeTags]

make_external(s) ==
  LET s1 == delete_archival(s)
      r2 == make_hooks_compatible(s1)
      s5 == update_exclude_tags(update_shell(update_test_data(r2.suite)))
  IN  IF r2.err # "none"
        THEN [suite |-> r2.suite, err |-> r2.err, ret |-> [kind |-> "None"],
              log |-> WarnMakeExternal \o WarnDeleteArchival \o WarnMakeHooksCompatible]
        ELSE [suite |-> s5, err |-> "none", ret |-> [kind |-> "suite", doc |-> s5],
              log |-> WarnMakeExternal \o WarnDeleteArchival \o WarnMakeHooksCompatible
                      \o WarnUpdateTestData \o WarnUpdateShell \o WarnUpdateExcludeTags]

\* ------------------------------------------------------------------- inputs
\* an optional field: <<>> when the key is absent, <<v>> when it holds v
Opt(S) == {<<>>} \cup {<<v>> : v \in S}

WithOpt(m, k, o) == IF o = <<>> THEN m ELSE Put(m, k, o[1])

\* keys the transformation never names, present together when x is TRUE
WithExtra(m, x, k, v) == IF x THEN Put(m, k, v) ELSE m

Str(n) == [kind |-> "str", name |-> n]

Dict(m) == [kind |-> "dict", fields |-> m]

HookVals ==
  { Str("CleanEveryN"), Str("ContinuousStepdown"), Str("CheckOrphansDeleted"), Str("X"),
    Dict([class |-> "CleanEveryN", n |-> "20"]), Dict([class |-> "ContinuousStepdown"]),
    Dict([class |-> "CheckOrphansDeleted"]), Dict([class |-> "Y"]),
    Dict([n |-> "20"]), [kind |-> "other"] }

HookLists == UNION {[1..n -> HookVals] : n \in 0..MaxHooks}

FewHookLists ==
  { <<Str("CleanEveryN"), Str("X"), Str("ContinuousStepdown")>>, <<[kind |-> "other"]>> }

Evals == {<<>>, <<"load", "(", "'a.js'", ")", ";">>}

TagLists == {<<>>, <<"foo">>}

TestDataMaps(x) ==
  {WithExtra(WithOpt(EmptyMap, "useActionPermittedFile", u), x, "peerPids", "none")
     : u \in Opt(BOOLEAN)}

GlobalVarsMaps(x) == {WithOpt(EmptyMap, "TestData", t) : t \in Opt(TestDataMaps(x))}

ShellOptionsMaps(x) ==
  {WithExtra(WithOpt(WithOpt(EmptyMap, "eval", ev), "global_vars", g), x, "nodb", "")
     : ev \in Opt(Evals), g \in Opt(GlobalVarsMaps(x))}

ConfigMaps(x) == {WithOpt(EmptyMap, "shell_options", so) : so \in Opt(ShellOptionsMaps(x))}

ExecutorMaps(x, hookLists, configs) ==
  {WithExtra(WithOpt(WithOpt(WithOpt(EmptyMap, "archive", a), "hooks", h), "config", c),
             x, "fixture", "ExternalFixture")
     : a \in Opt({TRUE}), h \in Opt(hookLists), c \in Opt(configs)}

SelectorMaps(x) ==
  {WithExtra(WithOpt(EmptyMap, "exclude_with_any_tags", t), x, "roots", "jstests/core")
     : t \in Opt(TagLists)}

Documents(x, executors, selectors) ==
  {WithExtra(WithOpt(WithOpt(WithOpt(EmptyMap, "archive", a), "executor", e), "selector", s),
             x, "test_kind", "js_test")
     : a \in Opt({TRUE}), e \in Opt(executors), s \in Opt(selectors)}

\* every hook list up to MaxHooks, in a bare document and in a full one
HookRichDocs ==
  { [executor |-> [hooks |-> h]] : h \in HookLists } \cup
  { [archive |-> TRUE, test_kind |-> "js_test",
     executor |-> [archive |-> TRUE, fixture |-> "ExternalFixture", hooks |-> h,
                   config |-> [shell_options |-> [nodb |-> ""]]],
     selector |-> [roots |-> "jstests/core", exclude_with_any_tags |-> <<"foo">>]]
      : h \in HookLists }

\* every shape of the rest of the document, with a few hook lists
RestRichDocs ==
  UNION {Documents(x, ExecutorMaps(x, FewHookLists, ConfigMaps(x)), SelectorMaps(x))
           : x \in BOOLEAN}

InputDocs == HookRichDocs \cup RestRichDocs

\* ------------------------------------------------------------------ actions
None == [kind |-> "None"]

Init ==
  /\ orig \in InputDocs
  /\ suite = orig
  /\ prev = orig
  /\ calls = <<>>
  /\ err = "none"
  /\ ret = None
  /\ log = <<>>

\* a call is possible while no exception has ended the run
CanCall == err = "none" /\ Len(calls) < MaxCalls

DeleteArchival ==
  /\ CanCall
  /\ suite' = delete_archival(suite)
  /\ prev' = suite
  /\ calls' = Append(calls, "delete_archival")
  /\ ret' = None
  /\ log' = log \o WarnDeleteArchival
  /\ UNCHANGED <<orig, err>>

MakeHooksCompatible ==
  /\ CanCall
  /\ suite' = make_hooks_compatible(suite).suite
  /\ err' = make_hooks_compatible(suite).err
  /\ prev' = suite
  /\ calls' = Append(calls, "make_hooks_compatible")
  /\ ret' = None
  /\ log' = log \o WarnMakeHooksCompatible
  /\ UNCHANGED orig

UpdateTestData ==
  /\ CanCall
  /\ suite' = update_test_data(suite)
  /\ prev' = suite
  /\ calls' = Append(calls, "update_test_data")
  /\ ret' = None
  /\ log' = log \o WarnUpdateTestData
  /\ UNCHANGED <<orig, err>>

UpdateShell ==
  /\ CanCall
  /\ suite' = update_shell(suite)
  /\ prev' = suite
  /\ calls' = Append(calls, "update_shell")
  /\ ret' = None
  /\ log' = log \o WarnUpdateShell
  /\ UNCHANGED <<orig, err>>

UpdateExcludeTags ==
  /\ CanCall
  /\ suite' = update_exclude_tags(suite)
  /\ prev' = suite
  /\ calls' = Append(calls, "update_exclude_tags")
  /\ ret' = None
  /\ log' = log \o WarnUpdateExcludeTags
  /\ UNCHANGED <<orig, err>>

MakeExternal ==
  /\ CanCall
  /\ suite' = make_external(suite).suite
  /\ err' = make_external(suite).err
  /\ ret' = make_external(suite).ret
  /\ prev' = suite
  /\ calls' = Append(calls, "make_external")
  /\ log' = log \o make_external(suite).log
  /\ UNCHANGED orig

Next ==
  \/ DeleteArchival
  \/ MakeHooksCompatible
  \/ UpdateTestData
  \/ UpdateShell
  \/ UpdateExcludeTags
  \/ MakeExternal

Spec == Init /\ [][Next]_vars

\* ------------------------------------------------- vocabulary of the claims
Last(q) == q[Len(q)]

LastCall == IF calls = <<>> THEN "" ELSE Last(calls)

OnlyCalls(name) == calls # <<>> /\ \A i \in 1..Len(calls) : calls[i] = name

ExecutorOf(d) == Get(d, "executor", EmptyMap)

HooksOf(d) == Get(ExecutorOf(d), "hooks", <<>>)

ConfigOf(d) == Get(ExecutorOf(d), "config", EmptyMap)

ShellOptionsOf(d) == Get(ConfigOf(d), "shell_options", EmptyMap)

GlobalVarsOf(d) == Get(ShellOptionsOf(d), "global_vars", EmptyMap)

TestDataOf(d) == Get(GlobalVarsOf(d), "TestData", EmptyMap)

EvalOf(d) == Get(ShellOptionsOf(d), "eval", <<>>)

SelectorOf(d) == Get(d, "selector", EmptyMap)

TagsOf(d) == Get(SelectorOf(d), "exclude_with_any_tags", <<>>)

SameField(m1, m2, k) == (Has(m1, k) <=> Has(m2, k)) /\ (Has(m1, k) => m1[k] = m2[k])

NoArchive(d) == ~Has(d, "archive") /\ ~Has(ExecutorOf(d), "archive")

AllStr(hs) == \A i \in 1..Len(hs) : hs[i].kind = "str"

AllDictWithClass(hs) ==
  \A i \in 1..Len(hs) : hs[i].kind = "dict" /\ Has(hs[i].fields, "class")

Uniform(hs) == AllStr(hs) \/ AllDictWithClass(hs)

Mixed(hs) ==
  /\ \E i \in 1..Len(hs) : hs[i].kind = "str"
  /\ \E i \in 1..Len(hs) : hs[i].kind = "dict"

IncompatibleNames == {"CleanEveryN", "ContinuousStepdown", "CheckOrphansDeleted"}

\* the hook is a plain string or a mapping with `class`, and its name is incompatible
NamedIncompatible(h) ==
  \/ h.kind = "str" /\ h.name \in IncompatibleNames
  \/ h.kind = "dict" /\ Has(h.fields, "class") /\ h.fields["class"] \in IncompatibleNames

\* the canonical hook in the style of the list's elements
CanonicalFor(hs) == IF hs[1].kind = "str" THEN AntithesisLoggingStr ELSE AntithesisLoggingDict

\* the hooks whose name is not incompatible, in their original order
RECURSIVE Compatible(_)
Compatible(hs) ==
  IF hs = <<>> THEN <<>>
  ELSE IF NamedIncompatible(Head(hs)) THEN Compatible(Tail(hs))
  ELSE <<Head(hs)>> \o Compatible(Tail(hs))

RECURSIVE Copies(_, _)
Copies(n, q) == IF n = 0 THEN <<>> ELSE q \o Copies(n - 1, q)

\* none of the warnings of the steps after the Hook Normalizer was emitted since
\* the log had length n
NoLaterWarningSince(n) ==
  \A i \in (n + 1)..Len(log) :
    log[i] \notin {"useActionPermittedFile_false", "jsTestLog_noop",
                   "antithesis_incompatible_excluded"}

\* new differs from old at this level by the removed keys, the added keys and the
\* values of the free keys only
FrameAt(new, old, removed, added, free) ==
  /\ DOMAIN new = ((DOMAIN old) \ removed) \cup added
  /\ \A k \in (DOMAIN old) \ (removed \cup added \cup free) : new[k] = old[k]

\* ------------------------------------------------------------------- claims

\* C1: make_hooks_compatible on a list of only plain strings or only mappings
\* with `class`: absent or empty hooks leave the document unchanged and raise
\* nothing; otherwise the new hooks are the canonical AntithesisLogging hook in
\* the list's style followed by the original hooks whose name is not
\* incompatible, in their original order.
C1_HooksReference ==
  (LastCall = "make_hooks_compatible" /\ Uniform(HooksOf(prev))) =>
     /\ err = "none"
     /\ IF HooksOf(prev) = <<>>
          THEN suite = prev
          ELSE HooksOf(suite) = <<CanonicalFor(HooksOf(prev))>> \o Compatible(HooksOf(prev))

C1_Witness ==
  /\ calls = <<"make_hooks_compatible">>
  /\ HooksOf(orig) = <<Str("CleanEveryN"), Str("X"), Str("ContinuousStepdown")>>
  /\ HooksOf(suite) = <<Str("AntithesisLogging"), Str("X")>>

\* C2 (as stated): for every hooks list with at least one plain string and at
\* least one mapping, make_external raises RuntimeError and none of the Test-Data
\* Updater, Shell Updater and Exclude-Tag Updater runs.
C2_MixedRaises ==
  (calls = <<"make_external">> /\ Mixed(HooksOf(orig))) =>
     /\ err = "RuntimeError"
     /\ NoLaterWarningSince(0)
     /\ SameField(ExecutorOf(suite), ExecutorOf(orig), "config")
     /\ SameField(suite, orig, "selector")

\* C3 (as stated): whenever make_external returns for a document whose hooks were
\* non-empty, the first hook is the canonical AntithesisLogging hook in the style
\* of the original elements and no hook (plain string or mapping with `class`)
\* has an incompatible name.
C3_HooksInvariant ==
  (LastCall = "make_external" /\ err = "none" /\ HooksOf(prev) # <<>>) =>
     /\ HooksOf(suite)[1] = CanonicalFor(HooksOf(prev))
     /\ \A i \in 1..Len(HooksOf(suite)) : ~NamedIncompatible(HooksOf(suite)[i])

\* C4: when the Hook Normalizer raises RuntimeError inside make_external, the
\* call returns nothing, both archive keys are gone, executor.hooks is unchanged
\* and the later steps neither ran nor wrote TestData, eval or selector.
C4_NoRollback ==
  (LastCall = "make_external" /\ err = "RuntimeError") =>
     /\ ret = None
     /\ NoArchive(suite)
     /\ FrameAt(suite, prev, {"archive"}, {}, {"executor"})
     /\ FrameAt(ExecutorOf(suite), ExecutorOf(prev), {"archive"}, {}, {})
     /\ log # <<>> /\ Last(log) = "antithesis_logging_added"

C4_Witness ==
  /\ calls = <<"make_external">>
  /\ err = "RuntimeError"
  /\ Has(orig, "archive") /\ Has(ExecutorOf(orig), "archive")
  /\ Has(ConfigOf(orig), "shell_options")
  /\ NoArchive(suite)

\* C5: after delete_archival and after make_external neither `archive` nor
\* executor.archive exists; when both are absent delete_archival changes nothing
\* (it does not create `executor`) and raises nothing; a second delete_archival
\* leaves the document as the first left it.
C5_ArchiveRemoved ==
  /\ LastCall \in {"delete_archival", "make_external"} => NoArchive(suite)
  /\ LastCall = "delete_archival" =>
       /\ err = "none"
       /\ FrameAt(suite, prev, {"archive"}, {}, {"executor"})
       /\ FrameAt(ExecutorOf(suite), ExecutorOf(prev), {"archive"}, {}, {})
       /\ NoArchive(prev) => suite = prev
  /\ (Len(calls) >= 2 /\ LastCall = "delete_archival"
        /\ calls[Len(calls) - 1] = "delete_archival") => suite = prev

C5_Witness ==
  /\ calls = <<"delete_archival", "delete_archival">>
  /\ Has(orig, "archive") /\ Has(ExecutorOf(orig), "archive")
  /\ NoArchive(suite)

\* C6: update_exclude_tags sets exclude_with_any_tags to ["antithesis_incompatible"]
\* when selector or the tag list is absent or empty, and otherwise appends the tag
\* as the last element of the unchanged original sequence, also on a second
\* application.
C6_ExcludeTags ==
  LastCall = "update_exclude_tags" =>
     /\ err = "none"
     /\ Has(suite, "selector") /\ Has(suite["selector"], "exclude_with_any_tags")
     /\ TagsOf(suite) = IF TagsOf(prev) = <<>>
                          THEN <<"antithesis_incompatible">>
                          ELSE TagsOf(prev) \o <<"antithesis_incompatible">>

C6_Witness ==
  /\ calls = <<"update_exclude_tags", "update_exclude_tags">>
  /\ TagsOf(orig) = <<"foo">>
  /\ TagsOf(suite) = <<"foo", "antithesis_incompatible", "antithesis_incompatible">>

\* C7: after n >= 1 applications of update_shell, eval is the original eval (the
\* empty string when absent) followed by exactly n copies of the no-op statement.
C7_ShellAppendOnly ==
  OnlyCalls("update_shell") =>
     /\ err = "none"
     /\ Has(ShellOptionsOf(suite), "eval")
     /\ EvalOf(suite) = EvalOf(orig) \o Copies(Len(calls), JsTestLogNoOp)

C7_Witness ==
  /\ calls = <<"update_shell", "update_shell">>
  /\ EvalOf(orig) # <<>>
  /\ Len(EvalOf(suite)) = Len(EvalOf(orig)) + 2 * Len(JsTestLogNoOp)

\* C8: update_test_data creates the missing mappings on the path
\* executor.config.shell_options.global_vars.TestData, sets useActionPermittedFile
\* to false whatever it was, keeps every other entry of TestData and of the
\* mappings on the path, and a second application changes nothing.
C8_TestData ==
  /\ LastCall = "update_test_data" =>
       /\ err = "none"
       /\ TestDataOf(suite)["useActionPermittedFile"] = FALSE
       /\ FrameAt(suite, prev, {}, {"executor"}, {"executor"})
       /\ FrameAt(ExecutorOf(suite), ExecutorOf(prev), {}, {"config"}, {"config"})
       /\ FrameAt(ConfigOf(suite), ConfigOf(prev), {}, {"shell_options"}, {"shell_options"})
       /\ FrameAt(ShellOptionsOf(suite), ShellOptionsOf(prev), {}, {"global_vars"}, {"global_vars"})
       /\ FrameAt(GlobalVarsOf(suite), GlobalVarsOf(prev), {}, {"TestData"}, {"TestData"})
       /\ FrameAt(TestDataOf(suite), TestDataOf(prev), {},
                  {"useActionPermittedFile"}, {"useActionPermittedFile"})
  /\ (Len(calls) >= 2 /\ LastCall = "update_test_data"
        /\ calls[Len(calls) - 1] = "update_test_data") => suite = prev

C8_Witness ==
  /\ calls = <<"update_test_data", "update_test_data">>
  /\ Has(TestDataOf(orig), "useActionPermittedFile")
  /\ TestDataOf(orig)["useActionPermittedFile"] = TRUE
  /\ Has(TestDataOf(orig), "peerPids")
  /\ TestDataOf(suite) = [useActionPermittedFile |-> FALSE, peerPids |-> "none"]

\* C9: after k >= 1 successive applications of make_external to a document with
\* a uniform non-empty hooks list, executor.hooks is k copies of the canonical
\* AntithesisLogging hook followed by the original hooks that are not
\* incompatible, in original order.
C9_CanonicalPrepended ==
  (OnlyCalls("make_external") /\ Uniform(HooksOf(orig)) /\ HooksOf(orig) # <<>>) =>
     /\ err = "none"
     /\ HooksOf(suite) = Copies(Len(calls), <<CanonicalFor(HooksOf(orig))>>)
                           \o Compatible(HooksOf(orig))

C9_Witness ==
  /\ calls = <<"make_external", "make_external">>
  /\ HooksOf(orig) = <<Dict([class |-> "CheckOrphansDeleted"]), Dict([class |-> "Y"])>>
  /\ HooksOf(suite) = <<AntithesisLoggingDict, AntithesisLoggingDict, Dict([class |-> "Y"])>>

\* C10: when make_external returns, it returns the document it was given, every
\* key outside archive, executor.archive, executor.hooks,
\* TestData.useActionPermittedFile, shell_options.eval and
\* selector.exclude_with_any_tags keeps its value, and the only keys added are
\* the missing mappings on the paths to those fields.
C10_Frame ==
  (LastCall = "make_external" /\ err = "none") =>
     /\ ret = [kind |-> "suite", doc |-> suite]
     /\ FrameAt(suite, prev, {"archive"}, {"executor", "selector"}, {"executor", "selector"})
     /\ FrameAt(ExecutorOf(suite), ExecutorOf(prev), {"archive"}, {"config"}, {"config", "hooks"})
     /\ FrameAt(ConfigOf(suite), ConfigOf(prev), {}, {"shell_options"}, {"shell_options"})
     /\ FrameAt(ShellOptionsOf(suite), ShellOptionsOf(prev), {},
                {"eval", "global_vars"}, {"eval", "global_vars"})
     /\ FrameAt(GlobalVarsOf(suite), GlobalVarsOf(prev), {}, {"TestData"}, {"TestData"})
     /\ FrameAt(TestDataOf(suite), TestDataOf(prev), {},
                {"useActionPermittedFile"}, {"useActionPermittedFile"})
     /\ FrameAt(SelectorOf(suite), SelectorOf(prev), {},
                {"exclude_with_any_tags"}, {"exclude_with_any_tags"})

C10_Witness ==
  /\ calls = <<"make_external">>
  /\ err = "none"
  /\ Has(orig, "test_kind") /\ Has(SelectorOf(orig), "roots")
  /\ Has(ShellOptionsOf(orig), "nodb") /\ Has(TestDataOf(orig), "peerPids")
  /\ Has(orig, "archive")
  /\ suite["test_kind"] = "js_test" /\ ShellOptionsOf(suite)["nodb"] = ""

====
